---- MODULE Spec2Model ----
(***************************************************************************)
(* The sales pipeline of delta-live-tables-demo: an Auto Loader streaming  *)
(* table (sales_bronze_python), the expectation-filtered sales_silver, the *)
(* daily_sales_gold rollup and the star schema (dim_location,              *)
(* dim_customer, dim_product, dim_date, fact_sales).  Tables are bags      *)
(* (multisets) of rows; SQL NULL, three-valued join equality, GROUP BY,    *)
(* COUNT(DISTINCT), SUM and uuid() are modelled as the queries use them.   *)
(* A pipeline update refreshes every table once, each after the tables it  *)
(* reads; independent tables refresh in any order.  Amounts are integers.  *)
(***************************************************************************)
EXTENDS Integers, FiniteSets, Sequences, Bags, TLC

\* ------------------------------------------------------------------ bounds
MaxFiles == 2
MaxRows == 2
MaxUpdates == 2

\* ------------------------------------------------------------- SQL values
\* SQL NULL; every real column value is >= 0.
NULL == -1

\* a = b in a join condition: true only when both sides are non-null.
SqlEq(a, b) == a # NULL /\ b # NULL /\ a = b

\* ------------------------------------------------------------- source rows
Columns ==
    {"transaction_id", "product_id", "product_name", "customer_name", "email",
     "delivery_address", "city", "state", "zip_code", "category", "quantity",
     "price", "discount", "total_amount", "payment_method", "transaction_date"}

\* Timestamps are written yyyymmddhh.
BaseRow ==
    [transaction_id |-> 1, product_id |-> 1, product_name |-> 1,
     customer_name |-> 1, email |-> 1, delivery_address |-> 1, city |-> 1,
     state |-> 1, zip_code |-> 1, category |-> 1, quantity |-> 1, price |-> 1,
     discount |-> 1, total_amount |-> 100, payment_method |-> 1,
     transaction_date |-> 2024010109]

\* The other values a column takes in the files; a column not named here
\* keeps the base row's value.
OtherValues(c) ==
    CASE c = "transaction_id" -> {NULL}
      [] c = "product_id" -> {NULL}
      [] c = "email" -> {NULL}
      [] c = "delivery_address" -> {2}
      [] c = "city" -> {NULL}
      [] c = "category" -> {NULL}
      [] c = "price" -> {2}
      [] c = "total_amount" -> {50}
      [] c = "transaction_date" -> {NULL, 2024010117}
      [] OTHER -> {}

\* The rows a file may hold: the base row and every row that differs from it
\* in one column (a null or another value there).  Between them: a missing
\* transaction_id or product_id, a null email, city, category or date, one
\* customer at two addresses that share city, state and zip_code, one product
\* at two prices, two timestamps of one day, two amounts.
Rows ==
    {BaseRow} \cup
    UNION {{[BaseRow EXCEPT ![c] = v] : v \in OtherValues(c)} : c \in Columns}

\* ------------------------------------------------------------ bag helpers
RECURSIVE SumOver(_, _)
SumOver(S, f) ==
    IF S = {} THEN 0
    ELSE LET x == CHOOSE y \in S : TRUE
         IN f[x] + SumOver(S \ {x}, f)

Range(s) == {s[i] : i \in DOMAIN s}

\* The rows of a sequence of data lines, as a bag.
BagOfSeq(s) ==
    [r \in Range(s) |-> Cardinality({i \in DOMAIN s : s[i] = r})]

RECURSIVE BagSum(_, _)
BagSum(F, content) ==
    IF F = {} THEN EmptyBag
    ELSE LET f == CHOOSE g \in F : TRUE
         IN content[f] (+) BagSum(F \ {f}, content)

\* The rows of a GROUP BY or of a set of groups, in some order.
RECURSIVE Enumerate(_)
Enumerate(S) ==
    IF S = {} THEN << >>
    ELSE LET x == CHOOSE y \in S : TRUE
         IN <<x>> \o Enumerate(S \ {x})

\* --------------------------------------------------------- SQL aggregates
\* COUNT(DISTINCT c): nulls are not counted.
CountDistinct(B, c) == Cardinality({r[c] : r \in BagToSet(B)} \ {NULL})

\* COUNT(c): the rows whose c is non-null.
CountCol(B, c) ==
    LET nn == {r \in BagToSet(B) : r[c] # NULL}
    IN SumOver(nn, [r \in nn |-> B[r]])

\* SUM(c): nulls are skipped; NULL when no row has a value.
SumCol(B, c) ==
    LET nn == {r \in BagToSet(B) : r[c] # NULL}
    IN IF nn = {} THEN NULL ELSE SumOver(nn, [r \in nn |-> B[r] * r[c]])

\* A quotient n / d, kept unevaluated; d = 0 is a division by zero.
Ratio(n, d) == [num |-> n, den |-> d]

\* date(ts), year(ts), month(ts), day(ts) of a yyyymmddhh timestamp.
Date(ts) == IF ts = NULL THEN NULL ELSE ts \div 100
Year(ts) == IF ts = NULL THEN NULL ELSE ts \div 1000000
Month(ts) == IF ts = NULL THEN NULL ELSE (ts \div 10000) % 100
Day(ts) == IF ts = NULL THEN NULL ELSE (ts \div 100) % 100

\* The k-th value uuid() returns in the n-th evaluation of a query that calls
\* it: a value that no other call returns.
Uuid(n, k) == n * (MaxRows + 1) + k

\* ------------------------------------------------------------------ state
VARIABLES
    landing,            \* /FileStore/demo-data/: the files, each a bag of rows
    checkpoint,         \* the files Auto Loader has already processed
    sales_bronze_python,
    sales_silver,
    daily_sales_gold,
    dim_location,
    dim_customer,
    dim_product,
    dim_date,
    fact_sales,
    silverGrew,         \* the last refresh of sales_silver added rows
    pc,                 \* "idle" or "running" (a pipeline update)
    refreshed,          \* the tables the current update has refreshed
    updates             \* the pipeline updates started so far

vars ==
    <<landing, checkpoint, sales_bronze_python, sales_silver, daily_sales_gold,
      dim_location, dim_customer, dim_product, dim_date, fact_sales, silverGrew, pc, refreshed, updates>>

Tables ==
    {"sales_bronze_python", "sales_silver", "daily_sales_gold", "dim_location",
     "dim_customer", "dim_product", "dim_date", "fact_sales"}

\* A faulty variant: dim_customer is not held back until dim_location is
\* refreshed.
UpstreamSilverOnly(t) ==
    IF t = "sales_bronze_python" THEN {}
    ELSE IF t = "sales_silver" THEN {"sales_bronze_python"}
    ELSE IF t = "fact_sales"
         THEN {"sales_silver", "dim_customer", "dim_product", "dim_location"}
    ELSE {"sales_silver"}

\* The tables each table reads.
Upstream(t) ==
    CASE t = "sales_bronze_python" -> {}
      [] t = "sales_silver" -> {"sales_bronze_python"}
      [] t = "daily_sales_gold" -> {"sales_silver"}
      [] t = "dim_location" -> {"sales_silver"}
      [] t = "dim_customer" -> {"sales_silver", "dim_location"}
      [] t = "dim_product" -> {"sales_silver"}
      [] t = "dim_date" -> {"sales_silver"}
      [] t = "fact_sales" ->
            {"sales_silver", "dim_customer", "dim_product", "dim_location"}

\* The queries that call uuid(), and the number of the evaluation of query t
\* in update u among all their evaluations.
Keyed == <<"dim_location", "dim_customer", "dim_product">>

Evaluation(t, u) ==
    u * Len(Keyed) + (CHOOSE i \in DOMAIN Keyed : Keyed[i] = t)

\* ------------------------------------------------------------ the queries
\* A faulty variant: a reader without a checkpoint, which reads the whole
\* directory.
AllFiles(files, seen) == DOMAIN files

\* Auto Loader (cloudFiles) reads only the files it has not processed yet.
NewFiles(files, seen) == DOMAIN files \ seen

account_contact_list_contacts(files, seen) ==
    BagSum(NewFiles(files, seen), files)

\* A faulty variant: the expectation written with OR.
valid_transaction_either(r) == r.transaction_id # NULL \/ r.product_id # NULL

valid_transaction(r) == r.transaction_id # NULL /\ r.product_id # NULL

\* A faulty variant: dlt.expect, which records failures and keeps every row.
ExpectOnly(B) == B

\* expect_or_drop keeps the rows that meet the expectation.
ExpectOrDrop(B) ==
    LET keep == {r \in BagToSet(B) : valid_transaction(r)}
    IN [r \in keep |-> B[r]]

\* A faulty variant: a GROUP BY that loses the rows without a date.
DailyGroupsDated(S) ==
    {<<Date(r.transaction_date), r.category>> :
        r \in {x \in BagToSet(S) : x.transaction_date # NULL}}

DailyGroups(S) ==
    {<<Date(r.transaction_date), r.category>> : r \in BagToSet(S)}

DailyGroup(S, g) ==
    LET in == {r \in BagToSet(S) :
                   <<Date(r.transaction_date), r.category>> = g}
    IN [r \in in |-> S[r]]

DailySalesGold(S) ==
    {LET G == DailyGroup(S, g)
     IN [sale_date |-> g[1],
         category |-> g[2],
         total_transactions |-> CountDistinct(G, "transaction_id"),
         unique_customers |-> CountDistinct(G, "customer_name"),
         total_items_sold |-> SumCol(G, "quantity"),
         total_revenue |-> SumCol(G, "total_amount"),
         total_discounts |-> SumCol(G, "discount"),
         average_price |-> Ratio(SumCol(G, "price"), CountCol(G, "price")),
         average_transaction_value |->
             Ratio(SumCol(G, "total_amount"),
                   CountDistinct(G, "transaction_id"))]
     : g \in DailyGroups(S)}

LocationGroups(S) ==
    {<<r.delivery_address, r.city, r.state, r.zip_code>> : r \in BagToSet(S)}

DimLocation(S, n) ==
    LET e == Enumerate(LocationGroups(S))
    IN {[location_key |-> Uuid(n, i),
         delivery_address |-> e[i][1],
         city |-> e[i][2],
         state |-> e[i][3],
         zip_code |-> e[i][4]] : i \in DOMAIN e}

CustomerJoin(s, l) ==
    /\ SqlEq(s.delivery_address, l.delivery_address)
    /\ SqlEq(s.city, l.city)
    /\ SqlEq(s.state, l.state)
    /\ SqlEq(s.zip_code, l.zip_code)

CustomerGroups(S, L) ==
    {<<s.customer_name, s.email, l.location_key>> :
        <<s, l>> \in {p \in BagToSet(S) \X L : CustomerJoin(p[1], p[2])}}

DimCustomer(S, L, n) ==
    LET e == Enumerate(CustomerGroups(S, L))
    IN {[customer_key |-> Uuid(n, i),
         location_key |-> e[i][3],
         customer_name |-> e[i][1],
         email |-> e[i][2]] : i \in DOMAIN e}

ProductGroups(S) ==
    {<<r.product_id, r.product_name, r.category, r.price>> : r \in BagToSet(S)}

DimProduct(S, n) ==
    LET e == Enumerate(ProductGroups(S))
    IN {[product_key |-> Uuid(n, i),
         product_id |-> e[i][1],
         product_name |-> e[i][2],
         category |-> e[i][3],
         price |-> e[i][4]] : i \in DOMAIN e}

DimDate(S) ==
    {[date_key |-> Date(r.transaction_date),
      year |-> Year(r.transaction_date),
      month |-> Month(r.transaction_date),
      day |-> Day(r.transaction_date)] :
        r \in {x \in BagToSet(S) : x.transaction_date # NULL}}

FactJoin(fs, dc, dp, dl) ==
    /\ SqlEq(fs.customer_name, dc.customer_name)
    /\ SqlEq(fs.email, dc.email)
    /\ SqlEq(fs.product_id, dp.product_id)
    /\ SqlEq(fs.city, dl.city)
    /\ SqlEq(fs.state, dl.state)
    /\ SqlEq(fs.zip_code, dl.zip_code)
    /\ fs.transaction_id # NULL

FactRow(fs, dc, dp, dl) ==
    [transaction_id |-> fs.transaction_id,
     customer_key |-> dc.customer_key,
     product_key |-> dp.product_key,
     location_key |-> dl.location_key,
     date_key |-> Date(fs.transaction_date),
     quantity |-> fs.quantity,
     price |-> fs.price,
     discount |-> fs.discount,
     total_amount |-> fs.total_amount,
     payment_method |-> fs.payment_method]

FactSales(S, C, P, L) ==
    LET m == {c \in BagToSet(S) \X C \X P \X L :
                  FactJoin(c[1], c[2], c[3], c[4])}
        out == {FactRow(c[1], c[2], c[3], c[4]) : c \in m}
    IN [y \in out |->
           LET from == {c \in m : FactRow(c[1], c[2], c[3], c[4]) = y}
           IN SumOver(from, [c \in from |-> S[c[1]]])]

\* ---------------------------------------------------------------- actions
Init ==
    /\ landing = << >>
    /\ checkpoint = {}
    /\ sales_bronze_python = EmptyBag
    /\ sales_silver = EmptyBag
    /\ daily_sales_gold = {}
    /\ dim_location = {}
    /\ dim_customer = {}
    /\ dim_product = {}
    /\ dim_date = {}
    /\ fact_sales = EmptyBag
    /\ silverGrew = FALSE
    /\ pc = "idle"
    /\ refreshed = {}
    /\ updates = 0

RowsLanded == SumOver(DOMAIN landing,
                      [f \in DOMAIN landing |-> BagCardinality(landing[f])])

\* The files of k rows, for each k.
FileContents ==
    [k \in 1..MaxRows |-> {BagOfSeq(s) : s \in [1..k -> Rows]}]

\* A new file of one or more rows lands in the source directory.
ArriveFile ==
    /\ Len(landing) < MaxFiles
    /\ \E k \in 1..(MaxRows - RowsLanded) :
         \E file \in FileContents[k] :
            landing' = Append(landing, file)
    /\ UNCHANGED <<checkpoint, sales_bronze_python, sales_silver,
                   daily_sales_gold, dim_location, dim_customer, dim_product,
                   dim_date, fact_sales, silverGrew, pc, refreshed,
                   updates>>

\* A pipeline update starts: every table is refreshed once, each after the
\* tables it reads.
StartUpdate ==
    /\ pc = "idle"
    /\ updates < MaxUpdates
    /\ pc' = "running"
    /\ refreshed' = {}
    /\ updates' = updates + 1
    /\ UNCHANGED <<landing, checkpoint, sales_bronze_python, sales_silver,
                   daily_sales_gold, dim_location, dim_customer, dim_product,
                   dim_date, fact_sales, silverGrew>>

Ready(t) ==
    /\ pc = "running"
    /\ t \notin refreshed
    /\ Upstream(t) \subseteq refreshed

Done(t) ==
    /\ refreshed' = refreshed \cup {t}
    /\ pc' = IF refreshed \cup {t} = Tables THEN "idle" ELSE "running"
    /\ UNCHANGED updates

RefreshBronze ==
    /\ Ready("sales_bronze_python")
    /\ sales_bronze_python' =
          sales_bronze_python (+) account_contact_list_contacts(landing, checkpoint)
    /\ checkpoint' = checkpoint \cup NewFiles(landing, checkpoint)
    /\ Done("sales_bronze_python")
    /\ UNCHANGED <<landing, sales_silver, daily_sales_gold, dim_location,
                   dim_customer, dim_product, dim_date, fact_sales, silverGrew>>

RefreshSilver ==
    /\ Ready("sales_silver")
    /\ sales_silver' = ExpectOrDrop(sales_bronze_python)
    /\ silverGrew' = (ExpectOrDrop(sales_bronze_python) # sales_silver)
    /\ Done("sales_silver")
    /\ UNCHANGED <<landing, checkpoint, sales_bronze_python, daily_sales_gold,
                   dim_location, dim_customer, dim_product, dim_date,
                   fact_sales>>

RefreshDailySalesGold ==
    /\ Ready("daily_sales_gold")
    /\ daily_sales_gold' = DailySalesGold(sales_silver)
    /\ Done("daily_sales_gold")
    /\ UNCHANGED <<landing, checkpoint, sales_bronze_python, sales_silver,
                   dim_location, dim_customer, dim_product, dim_date,
                   fact_sales, silverGrew>>

RefreshDimLocation ==
    /\ Ready("dim_location")
    /\ dim_location' = DimLocation(sales_silver, Evaluation("dim_location", updates))
    /\ Done("dim_location")
    /\ UNCHANGED <<landing, checkpoint, sales_bronze_python, sales_silver,
                   daily_sales_gold, dim_customer, dim_product, dim_date,
                   fact_sales, silverGrew>>

RefreshDimCustomer ==
    /\ Ready("dim_customer")
    /\ dim_customer' = DimCustomer(sales_silver, dim_location,
                      Evaluation("dim_customer", updates))
    /\ Done("dim_customer")
    /\ UNCHANGED <<landing, checkpoint, sales_bronze_python, sales_silver,
                   daily_sales_gold, dim_location, dim_product, dim_date,
                   fact_sales, silverGrew>>

RefreshDimProduct ==
    /\ Ready("dim_product")
    /\ dim_product' = DimProduct(sales_silver, Evaluation("dim_product", updates))
    /\ Done("dim_product")
    /\ UNCHANGED <<landing, checkpoint, sales_bronze_python, sales_silver,
                   daily_sales_gold, dim_location, dim_customer, dim_date,
                   fact_sales, silverGrew>>

RefreshDimDate ==
    /\ Ready("dim_date")
    /\ dim_date' = DimDate(sales_silver)
    /\ Done("dim_date")
    /\ UNCHANGED <<landing, checkpoint, sales_bronze_python, sales_silver,
                   daily_sales_gold, dim_location, dim_customer, dim_product,
                   fact_sales, silverGrew>>

RefreshFactSales ==
    /\ Ready("fact_sales")
    /\ fact_sales' =
          FactSales(sales_silver, dim_customer, dim_product, dim_location)
    /\ Done("fact_sales")
    /\ UNCHANGED <<landing, checkpoint, sales_bronze_python, sales_silver,
                   daily_sales_gold, dim_location, dim_customer, dim_product,
                   dim_date, silverGrew>>

Next ==
    \/ ArriveFile
    \/ StartUpdate
    \/ RefreshBronze
    \/ RefreshSilver
    \/ RefreshDailySalesGold
    \/ RefreshDimLocation
    \/ RefreshDimCustomer
    \/ RefreshDimProduct
    \/ RefreshDimDate
    \/ RefreshFactSales

Spec == Init /\ [][Next]_vars

\* ----------------------------------------------------------------- claims
Bronze == BagToSet(sales_bronze_python)
Silver == BagToSet(sales_silver)

\* C1: once sales_silver is refreshed it holds exactly the bronze rows whose
\* transaction_id and product_id are both non-null, as many times as bronze
\* holds them and with every column unchanged; and it never holds a row with a
\* null transaction_id or product_id.
SilverIsCleansedBronze ==
    /\ \A r \in Silver : r.transaction_id # NULL /\ r.product_id # NULL
    /\ "sales_silver" \in refreshed =>
          \A r \in Bronze \cup Silver :
             CopiesIn(r, sales_silver) =
                IF r.transaction_id # NULL /\ r.product_id # NULL
                THEN CopiesIn(r, sales_bronze_python)
                ELSE 0

SilverDroppedAndKept ==
    /\ "sales_silver" \in refreshed
    /\ sales_silver # EmptyBag
    /\ \E r \in Bronze : r.transaction_id = NULL \/ r.product_id = NULL

\* C2: the bronze table holds each row of each processed file exactly once,
\* however many times ingestion ran: a run over files already ingested adds
\* nothing, a run after new files adds their rows only.
IngestedExactlyOnce ==
    /\ checkpoint \subseteq DOMAIN landing
    /\ \A r \in Bronze \cup UNION {BagToSet(landing[f]) : f \in DOMAIN landing} :
          CopiesIn(r, sales_bronze_python) =
             SumOver(checkpoint, [f \in checkpoint |-> CopiesIn(r, landing[f])])

\* The second update re-ran ingestion over the files of the first one.
IngestionReRun ==
    /\ updates = 2
    /\ "sales_silver" \in refreshed
    /\ ~silverGrew
    /\ sales_silver # EmptyBag
    /\ BagCardinality(sales_silver) = BagCardinality(sales_bronze_python)

LocationTuple(a) == <<a.delivery_address, a.city, a.state, a.zip_code>>
CustomerTuple(a) == <<a.customer_name, a.email>>
ProductTuple(a) == <<a.product_id, a.product_name, a.category, a.price>>

\* C3: a rebuild of the dimension tables after sales_silver gained rows keeps
\* the surrogate key of every natural-key tuple that was already present:
\* each row whose tuple is still in the rebuilt table is there with its key.
SurrogateKeysStable ==
    [][silverGrew =>
          /\ \A a \in dim_location :
                (\E b \in dim_location' : LocationTuple(b) = LocationTuple(a))
                => \E b \in dim_location' :
                      /\ LocationTuple(b) = LocationTuple(a)
                      /\ b.location_key = a.location_key
          /\ \A a \in dim_customer :
                (\E b \in dim_customer' : CustomerTuple(b) = CustomerTuple(a))
                => \E b \in dim_customer' :
                      /\ CustomerTuple(b) = CustomerTuple(a)
                      /\ b.customer_key = a.customer_key
          /\ \A a \in dim_product :
                (\E b \in dim_product' : ProductTuple(b) = ProductTuple(a))
                => \E b \in dim_product' :
                      /\ ProductTuple(b) = ProductTuple(a)
                      /\ b.product_key = a.product_key]_vars

\* The columns fact_sales takes from sales_silver.
Measures(transaction_id, date_key, r) ==
    [transaction_id |-> transaction_id,
     date_key |-> date_key,
     quantity |-> r.quantity,
     price |-> r.price,
     discount |-> r.discount,
     total_amount |-> r.total_amount,
     payment_method |-> r.payment_method]

FactMeasures(f) == Measures(f.transaction_id, f.date_key, f)
SilverMeasures(r) == Measures(r.transaction_id, Date(r.transaction_date), r)

\* C4: after a complete update fact_sales holds exactly one row for every
\* sales_silver row with a non-null transaction_id: none dropped, none doubled.
FactSalesOneRowPerTransaction ==
    pc = "idle" =>
       LET valid == {r \in Silver : r.transaction_id # NULL}
           facts == BagToSet(fact_sales)
       IN \A m \in {SilverMeasures(r) : r \in valid} \cup
                   {FactMeasures(f) : f \in facts} :
             LET fm == {f \in facts : FactMeasures(f) = m}
                 sm == {r \in valid : SilverMeasures(r) = m}
             IN SumOver(fm, [f \in fm |-> fact_sales[f]]) =
                SumOver(sm, [r \in sm |-> sales_silver[r]])

\* C5: after a completed update every dim_customer row's location_key is the
\* location_key of a row of dim_location.
CustomerLocationResolves ==
    pc = "idle" =>
       \A c \in dim_customer :
          \E l \in dim_location : c.location_key = l.location_key

\* Two completed updates with a file ingested in each, and customers present.
CustomersAfterTwoUpdates ==
    /\ pc = "idle"
    /\ updates = 2
    /\ silverGrew
    /\ Cardinality(dim_customer) >= 2

\* C6: once daily_sales_gold is refreshed, its total_revenue summed over all
\* groups equals total_amount summed over sales_silver.
RevenueReconciles ==
    "daily_sales_gold" \in refreshed =>
       SumCol(SetToBag(daily_sales_gold), "total_revenue") =
       SumCol(sales_silver, "total_amount")

\* Revenue of a group without a date and of a dated group.
RevenueWithNullDate ==
    /\ "daily_sales_gold" \in refreshed
    /\ \E g \in daily_sales_gold : g.sale_date = NULL /\ g.total_revenue > 0
    /\ \E g \in daily_sales_gold : g.sale_date # NULL /\ g.total_revenue > 0

\* C7: no two rows of a dimension table share the table's natural key, and no
\* two share a surrogate key.
DimensionsDeduplicated ==
    /\ \A a, b \in dim_location :
          (/\ a.delivery_address = b.delivery_address
           /\ a.city = b.city
           /\ a.state = b.state
           /\ a.zip_code = b.zip_code) \/ a.location_key = b.location_key
             => a = b
    /\ \A a, b \in dim_customer :
          (a.customer_name = b.customer_name /\ a.email = b.email)
             \/ a.customer_key = b.customer_key
             => a = b
    /\ \A a, b \in dim_product :
          (/\ a.product_id = b.product_id
           /\ a.product_name = b.product_name
           /\ a.category = b.category
           /\ a.price = b.price) \/ a.product_key = b.product_key
             => a = b
    /\ \A a, b \in dim_date : a.date_key = b.date_key => a = b

\* C8: every bronze row carries a source_file and an ingested_at column.
BronzeCarriesIngestionMetadata ==
    \A r \in Bronze : {"source_file", "ingested_at"} \subseteq DOMAIN r

\* C10: every group of daily_sales_gold counts at least one distinct
\* transaction, so the divisor of average_transaction_value is never zero; an
\* empty sales_silver gives an empty daily_sales_gold.
DivisorNeverZero ==
    /\ \A g \in daily_sales_gold :
          g.total_transactions >= 1 /\ g.average_transaction_value.den >= 1
    /\ ("daily_sales_gold" \in refreshed /\ sales_silver = EmptyBag)
          => daily_sales_gold = {}

\* A group exists although bronze holds a row without a transaction_id.
GroupsBesideNullTransaction ==
    /\ daily_sales_gold # {}
    /\ \E r \in Bronze : r.transaction_id = NULL
====
